---- MODULE Spec2Model ----
(***************************************************************************)
(* HexFF: the hex edit view (HextEditViewComponent) and the file-service   *)
(* wrappers it calls (TauriWrappers.ts), as a state machine.               *)
(*                                                                         *)
(* The component's React state (fromPosition, hexData, positionByteValues, *)
(* bigEndian, readError) is the state; every handler of the component and  *)
(* every completion of a file-service promise is one action.  The requests *)
(* that are in flight, and what became of the finished ones, are kept in   *)
(* readLog and decodeLog in the order in which they were issued.           *)
(***************************************************************************)
EXTENDS Integers, Sequences, FiniteSets, TLC

(* ------------------------------ bounds -------------------------------- *)

\* Props of the component, scaled down (fileSize, rows) and the imported
\* column count of the grid.
FileSize == 3
Rows == 1
Columns == 2

\* How far time advances in one Tick.
TickStep == 50

\* The requests and edits one behaviour may hold.
MaxOps == 3

\* The largest value the tooltip formatter is given.
MaxFormatValue == 300

(* --------------------------- program constants ------------------------ *)

\* useDebounce(readFromPosition, 100)
Delay == 100

\* The fileIndex prop: one open file for the session.
FileIndex == 1

\* An array slot that holds no value (a hole, read as undefined).
Hole == -1

\* positionByteValues before the first decode: React.useState(undefined).
Undefined == [undefined |-> TRUE]

(* ------------------------------ helpers ------------------------------- *)

Min(a, b) == IF a < b THEN a ELSE b

Max(a, b) == IF a > b THEN a ELSE b

\* The grid holds rows * columns inputs, whatever the length of hexData.
CellCount == Rows * Columns

Cells == 0 .. (CellCount - 1)

(* ---------------------------- file service ---------------------------- *)

\* The content of the open file: FileSize bytes, all different.
FileByte(i) == (i * 83 + 200) % 256

\* The byte at an offset, 0 past the end of the file.
ByteAt(p) == IF p >= 0 /\ p < FileSize THEN FileByte(p) ELSE 0

\* The bytes read_file reads at filePos: one window, shorter at the end.
WindowBytes(filePos) ==
    LET n == Max(0, Min(CellCount, FileSize - filePos))
    IN  [i \in 1 .. n |-> FileByte(filePos + i - 1)]

\* Base64: a text is a sequence of sextets 0..63, with 64 for the pad '='.
Pad == 64

RECURSIVE Base64Encode(_)
Base64Encode(bytes) ==
    IF Len(bytes) = 0 THEN << >>
    ELSE IF Len(bytes) = 1 THEN
        << bytes[1] \div 4, (bytes[1] % 4) * 16, Pad, Pad >>
    ELSE IF Len(bytes) = 2 THEN
        << bytes[1] \div 4,
           (bytes[1] % 4) * 16 + bytes[2] \div 16,
           (bytes[2] % 16) * 4,
           Pad >>
    ELSE
        << bytes[1] \div 4,
           (bytes[1] % 4) * 16 + bytes[2] \div 16,
           (bytes[2] % 16) * 4 + bytes[3] \div 64,
           bytes[3] % 64 >>
        \o Base64Encode(SubSeq(bytes, 4, Len(bytes)))

\* invoke("read_file", {fileIndex, filePos}) when it succeeds.
ReadFileResult(fileIndex, filePos) ==
    [file_index |-> fileIndex, file_data |-> Base64Encode(WindowBytes(filePos))]

\* atob: the binary string (one code unit 0..255 per byte) of a base64 text.
RECURSIVE atob(_)
atob(text) ==
    IF Len(text) < 4 THEN << >>
    ELSE
        LET s1 == text[1]
            s2 == text[2]
            s3 == text[3]
            s4 == text[4]
            b1 == (s1 * 4 + s2 \div 16) % 256
            b2 == ((s2 % 16) * 16 + s3 \div 4) % 256
            b3 == ((s3 % 4) * 64 + s4) % 256
            rest == atob(SubSeq(text, 5, Len(text)))
        IN  IF s3 = Pad THEN << b1 >>
            ELSE IF s4 = Pad THEN << b1, b2 >>
            ELSE << b1, b2, b3 >> \o rest

\* Uint8Array.from(str, c => c.codePointAt(0) ?? 0), spread into an array.
Uint8ArrayFrom(str) == [i \in 1 .. Len(str) |-> str[i] % 256]

\* What the file service can fail with.
Causes == {"file closed", "transport fault"}

\* readFile / getDataInPosition: catch (error) { throw new Error(`${error}`) }
WrapError(cause) == [name |-> "Error", message |-> cause]

\* invoke("get_data_in_position", {fileIndex, filePos}) when it succeeds: the
\* decoded bundle of the bytes at filePos.  A character field holds a short
\* sequence (the unit at filePos and its lookahead).
DataInPosition(fileIndex, filePos) ==
    LET b0 == ByteAt(filePos)
        b1 == ByteAt(filePos + 1)
    IN  [ value_u8      |-> b0,
          value_le_u8   |-> b0,
          value_u16     |-> b0 * 256 + b1,
          value_le_u16  |-> b1 * 256 + b0,
          char_ascii    |-> b0 % 128,
          char_le_utf8  |-> << b0, b1 >>,
          char_le_utf16 |-> << b1 * 256 + b0, 0 >>,
          char_le_utf32 |-> << b1 * 256 + b0 >>,
          char_be_utf8  |-> << b0, b1 >>,
          char_be_utf16 |-> << b0 * 256 + b1, 0 >>,
          char_be_utf32 |-> << b0 * 256 + b1 >> ]

\* The same answer in the shape type DataInPositionResult declares: one
\* character field per encoding, none per byte order.
DataInPositionResult(fileIndex, filePos) ==
    LET b0 == ByteAt(filePos)
        b1 == ByteAt(filePos + 1)
    IN  [ value_u8      |-> b0,
          value_le_u8   |-> b0,
          value_u16     |-> b0 * 256 + b1,
          value_le_u16  |-> b1 * 256 + b0,
          char_ascii    |-> b0 % 128,
          char_utf8     |-> << b0, b1 >>,
          char_utf16    |-> << b0 * 256 + b1, 0 >>,
          char_utf32    |-> << b0 * 256 + b1 >> ]

\* What get_data_in_position may resolve with.
DecodeResponses(fileIndex, filePos) ==
    {DataInPosition(fileIndex, filePos), DataInPositionResult(fileIndex, filePos)}

(* ------------------------------- state -------------------------------- *)

VARIABLES
    fromPosition,        \* useState(0): the window offset
    hexData,             \* useState([]): the edit buffer
    positionByteValues,  \* useState(undefined): the displayed bundle
    bigEndian,           \* useState(false)
    readError,           \* useRef(false)
    timer,               \* the debounce timer: Idle, or the time since it was set
    readLog,             \* readFile calls in issue order: [file, pos, st, error]
    decodeLog,           \* getDataInPosition calls in issue order: [file, pos, st]
    notified,            \* the calls of the notification sink, in order
    installed,           \* index in readLog of the read hexData came from, 0: none
    editedCells,         \* cells edited since hexData was last replaced
    nEdits,              \* edits so far
    burstChanges,        \* slider moves of the present burst: "none", "one", "many"
    burstReads,          \* readFile calls since the burst began
    tooltip              \* what the Slider's tooltip formatter was last given and gave

vars == << fromPosition, hexData, positionByteValues, bigEndian, readError,
           timer, readLog, decodeLog, notified, installed, editedCells,
           nEdits, burstChanges, burstReads, tooltip >>

\* The component's own state, without the debounce timer and the requests.
viewState == << fromPosition, hexData, positionByteValues, bigEndian, readError >>

\* What the histories keep beside the program's state.
ghosts == << installed, editedCells, nEdits, burstChanges, burstReads >>

Idle == -1

InFlight(log) == {i \in 1 .. Len(log) : log[i].st = "inflight"}

(* --------------------------- the debounce hook ------------------------ *)

\* useDebounce(callback, delay): whenever the callback changes, the pending
\* timeout is cancelled and a new one is set; at mount one is set.
useDebounce(t) == 0

\* setTimeout runs its callback once the delay has passed, never before.
TimerDue == timer # Idle /\ timer >= Delay

(* ------------------------------ handlers ------------------------------ *)

\* As onHexValueChange, had it inserted the value (splice) instead of
\* replacing the entry.
onHexValueChangeSplice(data, value, bytePosition) ==
    [i \in 1 .. (Max(Len(data), bytePosition) + 1) |->
        IF i = bytePosition + 1 THEN value
        ELSE IF i <= bytePosition THEN (IF i <= Len(data) THEN data[i] ELSE Hole)
        ELSE data[i - 1]]

\* modifyHexData = [...hexData]; modifyHexData[bytePosition] = value
onHexValueChange(data, value, bytePosition) ==
    [i \in 1 .. Max(Len(data), bytePosition + 1) |->
        IF i = bytePosition + 1 THEN value
        ELSE IF i <= Len(data) THEN data[i]
        ELSE Hole]

\* As onFilePositionChangeThen, had it taken the last element of one of the
\* character sequences instead of the first.
onFilePositionChangeThenLast(f) ==
    [f EXCEPT !.char_le_utf8  = f.char_le_utf8[1],
              !.char_le_utf16 = f.char_le_utf16[1],
              !.char_le_utf32 = f.char_le_utf32[1],
              !.char_be_utf8  = f.char_be_utf8[1],
              !.char_be_utf16 = f.char_be_utf16[Len(f.char_be_utf16)],
              !.char_be_utf32 = f.char_be_utf32[1]]

\* .then(f => setPositionByteValues({...f, char_le_utf8: f.char_le_utf8[0], ...}))
onFilePositionChangeThen(f) ==
    [f EXCEPT !.char_le_utf8  = f.char_le_utf8[1],
              !.char_le_utf16 = f.char_le_utf16[1],
              !.char_le_utf32 = f.char_le_utf32[1],
              !.char_be_utf8  = f.char_be_utf8[1],
              !.char_be_utf16 = f.char_be_utf16[1],
              !.char_be_utf32 = f.char_be_utf32[1]]

\* As readFromPositionThen, had it copied the bytes into the buffer it
\* found instead of replacing the buffer.
readFromPositionThenInPlace(res) ==
    LET buff == Uint8ArrayFrom(atob(res.file_data))
    IN  [i \in 1 .. Max(Len(buff), Len(hexData)) |->
            IF i <= Len(buff) THEN buff[i] ELSE hexData[i]]

\* .then(res => { buff = Uint8Array.from(atob(res.file_data), ...); setHexData([...buff]) })
readFromPositionThen(res) == Uint8ArrayFrom(atob(res.file_data))

\* As readFromPositionCatch, had it only set the flag.
readFromPositionCatchSilent(error) == << >>

\* notification("error", translate("fileReadFailed", undefined, { error }))
readFromPositionCatch(error) ==
    << [level |-> "error", key |-> "fileReadFailed", error |-> error] >>

\* f.char_le_utf8[0] ... f.char_be_utf32[0] throw a TypeError when the field
\* is missing, before setPositionByteValues is called.
Reshapable(f) ==
    {"char_le_utf8", "char_le_utf16", "char_le_utf32",
     "char_be_utf8", "char_be_utf16", "char_be_utf32"} \subseteq DOMAIN f

\* As hexValue, had a missing entry been given as 0.
hexValueZero(i) ==
    IF i < Len(hexData) /\ hexData[i + 1] # Hole THEN hexData[i + 1] ELSE 0

\* inputsMemo: hexValue={hexData[i]}, undefined at an index the array does
\* not hold.
hexValue(i) == IF i < Len(hexData) THEN hexData[i + 1] ELSE Hole

\* onChange = value => setFromPosition(value)
onChange(value) == value

\* As SliderValues, had max been one step beyond the file size.
SliderValuesWide ==
    {v \in 0 .. (FileSize + Columns) : v % Columns = 0 \/ v = FileSize + Columns}

\* The values the Slider hands to onChange: min 0, max fileSize, step columns.
SliderValues == {v \in 0 .. FileSize : v % Columns = 0 \/ v = FileSize}

\* The byte value an edit types in: not a byte of the file.
EditValues == {255}

\* readFile(fileIndex, filePos) and getDataInPosition(fileIndex, filePos):
\* the request as issued, its promise pending.
readFile(fileIndex, filePos) ==
    [file |-> fileIndex, pos |-> filePos, st |-> "inflight", error |-> "none"]

getDataInPosition(fileIndex, filePos) ==
    [file |-> fileIndex, pos |-> filePos, st |-> "inflight"]

\* The requests and edits so far, the read a pending timeout will issue
\* included.
Ops == Len(readLog) + Len(decodeLog) + nEdits + (IF timer # Idle THEN 1 ELSE 0)

\* The offsets the file service answers: those within [0, fileSize].
ValidOffset(p) == p >= 0 /\ p <= FileSize

(* ------------------------------ formatter ----------------------------- *)

UpperDigits ==
    << "0", "1", "2", "3", "4", "5", "6", "7", "8", "9", "A", "B", "C", "D", "E", "F" >>

LowerDigits ==
    << "0", "1", "2", "3", "4", "5", "6", "7", "8", "9", "a", "b", "c", "d", "e", "f" >>

\* The hexadecimal digits of value, most significant first.
RECURSIVE ToHex(_, _)
ToHex(value, digits) ==
    IF value < Len(digits) THEN << digits[value + 1] >>
    ELSE ToHex(value \div Len(digits), digits) \o << digits[(value % Len(digits)) + 1] >>

\* Zero-padded to two digits per byte.
PadBytes(text) == IF Len(text) % 2 = 1 THEN << "0" >> \o text ELSE text

formatterUpper(value) == PadBytes(ToHex(value, UpperDigits))

formatterLower(value) == PadBytes(ToHex(value, LowerDigits))

\* As formatter, had it given no text for a value that is absent.
formatterNoFallback(hexUpperCase, value) ==
    IF value = Hole THEN << >>
    ELSE IF hexUpperCase = TRUE THEN formatterUpper(value)
    ELSE formatterLower(value)

\* formatter = hexUpperCase === true ? value => formatterUpper(value ?? 0)
\*                                    : value => formatterLower(value ?? 0)
formatter(hexUpperCase, value) ==
    IF hexUpperCase = TRUE
    THEN formatterUpper(IF value = Hole THEN 0 ELSE value)
    ELSE formatterLower(IF value = Hole THEN 0 ELSE value)

\* The values the formatter is given: a number, or none.
FormatValues == (0 .. MaxFormatValue) \cup {Hole}

\* No tooltip was shown yet.
NoTooltip == [value |-> Hole, upper |-> FALSE, text |-> << >>]

(* ------------------------------- actions ------------------------------ *)

Init ==
    /\ fromPosition = 0
    /\ hexData = << >>
    /\ positionByteValues = Undefined
    /\ bigEndian = FALSE
    /\ readError = FALSE
    /\ timer = useDebounce(Idle)
    /\ readLog = << >>
    /\ decodeLog = << >>
    /\ notified = << >>
    /\ installed = 0
    /\ editedCells = {}
    /\ nEdits = 0
    /\ burstChanges = "none"
    /\ burstReads = 0
    /\ tooltip = NoTooltip

\* As OnChange, had the handler also read at once instead of leaving the
\* read to the debounced callback.
OnChangeEager(value) ==
    /\ value # fromPosition
    /\ ~TimerDue
    /\ timer # Idle \/ Ops < MaxOps
    /\ fromPosition' = onChange(value)
    /\ timer' = useDebounce(timer)
    /\ readLog' = Append(readLog, readFile(FileIndex, onChange(value)))
    /\ IF timer # Idle /\ burstChanges # "none"
       THEN burstChanges' = "many" /\ burstReads' = burstReads + 1
       ELSE burstChanges' = "one" /\ burstReads' = 1
    /\ UNCHANGED << tooltip, hexData, positionByteValues, bigEndian, readError,
                    decodeLog, notified, installed, editedCells, nEdits >>

\* The Slider's onChange.  setFromPosition with the value already held
\* renders nothing; any other value gives readFromPosition a new identity,
\* on which useDebounce sets its timer anew.  A timeout that is due runs
\* before a later slider event is handled.
OnChange(value) ==
    /\ value # fromPosition
    /\ ~TimerDue
    /\ timer # Idle \/ Ops < MaxOps
    /\ fromPosition' = onChange(value)
    /\ timer' = useDebounce(timer)
    /\ IF timer # Idle /\ burstChanges # "none"
       THEN burstChanges' = "many" /\ burstReads' = burstReads
       ELSE burstChanges' = "one" /\ burstReads' = 0
    /\ UNCHANGED << tooltip, hexData, positionByteValues, bigEndian, readError,
                    readLog, decodeLog, notified, installed, editedCells, nEdits >>

SliderChange == \E value \in SliderValues : OnChange(value)

\* Time passes while the timeout is pending.
Tick ==
    /\ timer # Idle
    /\ ~TimerDue
    /\ timer' = Min(timer + TickStep, Delay)
    /\ UNCHANGED << tooltip, viewState, readLog, decodeLog, notified, ghosts >>

\* The timeout runs readFromPosition: readFile(fileIndex, fromPosition).
ReadFromPosition ==
    /\ TimerDue
    /\ timer' = Idle
    /\ readLog' = Append(readLog, readFile(FileIndex, fromPosition))
    /\ burstReads' = burstReads + 1
    /\ UNCHANGED << tooltip, viewState, decodeLog, notified, installed, editedCells,
                    nEdits, burstChanges >>

\* As ReadSucceed, had the then-callback left readError.current as it was.
ReadSucceedKeepFlag(i) ==
    /\ readLog[i].st = "inflight"
    /\ ValidOffset(readLog[i].pos)
    /\ hexData' = readFromPositionThen(ReadFileResult(readLog[i].file, readLog[i].pos))
    /\ readLog' = [readLog EXCEPT ![i].st = "ok"]
    /\ installed' = i
    /\ editedCells' = {}
    /\ UNCHANGED << tooltip, fromPosition, positionByteValues, bigEndian, timer, readError,
                    decodeLog, notified, nEdits, burstChanges, burstReads >>

\* The promise of read i resolves: readFromPosition's then.
ReadSucceed(i) ==
    /\ readLog[i].st = "inflight"
    /\ ValidOffset(readLog[i].pos)
    /\ hexData' = readFromPositionThen(ReadFileResult(readLog[i].file, readLog[i].pos))
    /\ readError' = FALSE
    /\ readLog' = [readLog EXCEPT ![i].st = "ok"]
    /\ installed' = i
    /\ editedCells' = {}
    /\ UNCHANGED << tooltip, fromPosition, positionByteValues, bigEndian, timer,
                    decodeLog, notified, nEdits, burstChanges, burstReads >>

\* As ReadFail, had the catch set the timeout anew to read once more.
ReadFailRetry(i, cause) ==
    /\ readLog[i].st = "inflight"
    /\ readError' = TRUE
    /\ notified' = notified \o readFromPositionCatch(WrapError(cause))
    /\ readLog' = [readLog EXCEPT ![i].st = "fail", ![i].error = cause]
    /\ timer' = useDebounce(timer)
    /\ UNCHANGED << tooltip, fromPosition, hexData, positionByteValues, bigEndian,
                    decodeLog, ghosts >>

\* The promise of read i rejects: readFromPosition's catch.
ReadFail(i, cause) ==
    /\ readLog[i].st = "inflight"
    /\ readError' = TRUE
    /\ notified' = notified \o readFromPositionCatch(WrapError(cause))
    /\ readLog' = [readLog EXCEPT ![i].st = "fail", ![i].error = cause]
    /\ UNCHANGED << tooltip, fromPosition, hexData, positionByteValues, bigEndian,
                    timer, decodeLog, ghosts >>

\* An edit of grid cell bytePosition (InputHex's onHexValueChange).
OnHexValueChange(value, bytePosition) ==
    /\ Ops < MaxOps
    /\ hexData' = onHexValueChange(hexData, value, bytePosition)
    /\ editedCells' = editedCells \cup {bytePosition}
    /\ nEdits' = nEdits + 1
    /\ UNCHANGED << tooltip, fromPosition, positionByteValues, bigEndian, readError,
                    timer, readLog, decodeLog, notified, installed,
                    burstChanges, burstReads >>

\* A position event of an input: onFilePositionChange(value).
OnFilePositionChange(value) ==
    /\ Ops < MaxOps
    /\ decodeLog' = Append(decodeLog, getDataInPosition(FileIndex, value))
    /\ UNCHANGED << tooltip, viewState, timer, readLog, notified, ghosts >>

\* As CellPosition, had input i been given its index in the window as its
\* file position.
CellPositionIndex == \E i \in Cells : OnFilePositionChange(i)

\* Input i of the grid is given filePosition = fromPosition + i.
CellPosition == \E i \in Cells : OnFilePositionChange(fromPosition + i)

\* The promise of decode i resolves with f: onFilePositionChange's then.
\* When the callback throws, nothing is set and nothing catches it.
DecodeResolve(i, f) ==
    /\ decodeLog[i].st = "inflight"
    /\ ValidOffset(decodeLog[i].pos)
    /\ IF Reshapable(f)
       THEN /\ positionByteValues' = onFilePositionChangeThen(f)
            /\ decodeLog' = [decodeLog EXCEPT ![i].st = "ok"]
       ELSE /\ positionByteValues' = positionByteValues
            /\ decodeLog' = [decodeLog EXCEPT ![i].st = "thrown"]
    /\ UNCHANGED << tooltip, fromPosition, hexData, bigEndian, readError, timer,
                    readLog, notified, ghosts >>

\* As DecodeFail, had a catch blanked the displayed bundle.
DecodeFailBlank(i, cause) ==
    /\ decodeLog[i].st = "inflight"
    /\ decodeLog' = [decodeLog EXCEPT ![i].st = "fail"]
    /\ positionByteValues' = Undefined
    /\ UNCHANGED << tooltip, fromPosition, hexData, bigEndian, readError, timer,
                    readLog, notified, ghosts >>

\* The promise of decode i rejects: the chain has no catch.
DecodeFail(i, cause) ==
    /\ decodeLog[i].st = "inflight"
    /\ decodeLog' = [decodeLog EXCEPT ![i].st = "fail"]
    /\ UNCHANGED << tooltip, viewState, timer, readLog, notified, ghosts >>

\* As OnSwitchChange, had the handler also decoded anew at the window
\* offset for the byte order chosen.
OnSwitchChangeDecode(checked) ==
    /\ checked # bigEndian
    /\ Ops < MaxOps
    /\ bigEndian' = checked
    /\ decodeLog' = Append(decodeLog, getDataInPosition(FileIndex, fromPosition))
    /\ UNCHANGED << tooltip, fromPosition, hexData, positionByteValues, readError,
                    timer, readLog, notified, ghosts >>

\* The Switch's onChange.
OnSwitchChange(checked) ==
    /\ checked # bigEndian
    /\ bigEndian' = checked
    /\ UNCHANGED << tooltip, fromPosition, hexData, positionByteValues, readError,
                    timer, readLog, decodeLog, notified, ghosts >>

ReadDone ==
    \E i \in InFlight(readLog) :
        \/ ReadSucceed(i)
        \/ \E cause \in Causes : ReadFail(i, cause)

DecodeDone ==
    \E i \in InFlight(decodeLog) :
        \/ \E f \in DecodeResponses(decodeLog[i].file, decodeLog[i].pos) : DecodeResolve(i, f)
        \/ \E cause \in Causes : DecodeFail(i, cause)

Edit == \E value \in EditValues, bytePosition \in Cells : OnHexValueChange(value, bytePosition)

Switch == \E checked \in BOOLEAN : OnSwitchChange(checked)

Next ==
    \/ SliderChange
    \/ Tick
    \/ ReadFromPosition
    \/ ReadDone
    \/ Edit
    \/ CellPosition
    \/ DecodeDone
    \/ Switch

Spec == Init /\ [][Next]_vars

\* The window-offset setter called with any value, as a caller other than
\* the Slider would call it: beside the Slider's values, the two of the
\* clamping property (fileSize + 1000 and -5).
SetterValues == SliderValues \cup {FileSize + 1000, 0 - 5}

SetWindowOffset == \E value \in SetterValues : OnChange(value)

\* The window flow alone: the setter, the debounce and the reads.
NextSetter ==
    \/ SetWindowOffset
    \/ Tick
    \/ ReadFromPosition
    \/ ReadDone

SetterSpec == Init /\ [][NextSetter]_vars

\* The Slider shows its tooltip for value, with the hexUpperCase prop of
\* this render: tooltip={{ formatter }}.
Tooltip(hexUpperCase, value) ==
    /\ tooltip' = [value |-> value, upper |-> hexUpperCase,
                   text |-> formatter(hexUpperCase, value)]
    /\ UNCHANGED << viewState, timer, readLog, decodeLog, notified, ghosts >>

\* The formatter alone, given every value with either case.
NextFormat == \E hexUpperCase \in BOOLEAN, value \in FormatValues : Tooltip(hexUpperCase, value)

FormatSpec == Init /\ [][NextFormat]_vars

(* ============================== claims ================================ *)

\* The bundle the component shows for a decode at filePos.
BundleAt(filePos) == onFilePositionChangeThen(DataInPosition(FileIndex, filePos))

\* Cell c shows byte c of the window at filePos, unless it was edited since.
ShowsWindow(filePos) ==
    \A c \in 0 .. (Len(WindowBytes(filePos)) - 1) :
        c \notin editedCells =>
            /\ c < Len(hexData)
            /\ hexData[c + 1] = WindowBytes(filePos)[c + 1]

Failed(log) == {i \in 1 .. Len(log) : log[i].st = "fail"}

\* C1: last-issued-wins for point decodes: once the response of the decode
\* issued last has been installed, the displayed bundle is the one of its
\* offset, whichever responses of earlier decodes arrive after it.
C1_LastIssuedDecodeWins ==
    (Len(decodeLog) > 0 /\ decodeLog[Len(decodeLog)].st = "ok")
        => positionByteValues = BundleAt(decodeLog[Len(decodeLog)].pos)

\* C3: late window-read results are discarded: once the response of the
\* read issued last has been installed, hexData holds the bytes of its
\* offset, whichever responses of earlier reads arrive after it.
C3_LastIssuedReadWins ==
    (Len(readLog) > 0 /\ readLog[Len(readLog)].st = "ok")
        => ShowsWindow(readLog[Len(readLog)].pos)

\* C7: an edit is never applied outside the bounds of the loaded window, and
\* the length of hexData is the length of the window the last successful
\* read returned: setByte never changes it.
C7_LengthOnlyFromReads ==
    installed # 0 =>
        /\ Len(hexData) = Len(WindowBytes(readLog[installed].pos))
        /\ \A c \in editedCells : c < Len(WindowBytes(readLog[installed].pos))

\* C10: every decode failure is surfaced: the notification sink has been
\* invoked once for every read and every decode that failed.
C10_DecodeFailureNotified ==
    Len(notified) >= Cardinality(Failed(readLog)) + Cardinality(Failed(decodeLog))

\* C2: debounce coalescing: a burst of slider moves, each less than the
\* settle interval after the one before, has caused no readFile call while
\* its timeout is pending and exactly one once the timeout has run.
C2_OneReadPerBurst ==
    burstChanges # "none" =>
        IF timer = Idle THEN burstReads = 1 ELSE burstReads = 0

\* A burst of two or more moves has settled with its one read.
C2_Witness == burstChanges = "many" /\ timer = Idle /\ burstReads = 1

\* C4: a step in which the promise of a window read rejects leaves hexData
\* as it is, sets readError, and calls the notification sink once, with
\* level "error" and a message that carries the error the read failed with.
C4_ReadFailureKeepsBuffer ==
    [][ \A i \in 1 .. Len(readLog) :
          (readLog[i].st = "inflight" /\ readLog'[i].st = "fail") =>
              /\ hexData' = hexData
              /\ readError' = TRUE
              /\ Len(notified') = Len(notified) + 1
              /\ SubSeq(notified', 1, Len(notified)) = notified
              /\ notified'[Len(notified')].level = "error"
              /\ notified'[Len(notified')].error.message = readLog'[i].error
      ]_vars

\* A read has failed over a loaded buffer that holds an edit.
C4_Witness ==
    /\ Failed(readLog) # {}
    /\ readError
    /\ Len(notified) = 1
    /\ installed # 0
    /\ editedCells # {}

\* C5: right after a successful window read hexData is the bytes the read
\* returned: as many, each the file byte at offset + i (in 0..255), with
\* nothing left of the buffer before, also when that one was longer.
C5_ReadReplacesBuffer ==
    (installed # 0 /\ editedCells = {}) =>
        /\ hexData = WindowBytes(readLog[installed].pos)
        /\ Len(hexData) = Max(0, Min(CellCount, FileSize - readLog[installed].pos))
        /\ \A i \in 1 .. Len(hexData) :
               /\ hexData[i] \in 0 .. 255
               /\ hexData[i] = FileByte(readLog[installed].pos + i - 1)

\* A shorter window has replaced a longer one that had been edited.
C5_Witness ==
    /\ installed # 0
    /\ editedCells = {}
    /\ nEdits > 0
    /\ \E i \in 1 .. Len(readLog) :
           /\ i # installed
           /\ readLog[i].st = "ok"
           /\ Len(WindowBytes(readLog[i].pos)) > Len(hexData)

\* C6: an edit of a cell within the buffer replaces that one entry; the
\* other entries, the length, fromPosition, the bundle, bigEndian and
\* readError stay, no timeout is set and no request is issued.
C6_EditIsolation ==
    [][ \A value \in EditValues, bytePosition \in Cells :
          (bytePosition < Len(hexData) /\ OnHexValueChange(value, bytePosition)) =>
              /\ Len(hexData') = Len(hexData)
              /\ hexData'[bytePosition + 1] = value
              /\ \A i \in 1 .. Len(hexData) :
                     i # bytePosition + 1 => hexData'[i] = hexData[i]
              /\ UNCHANGED << fromPosition, positionByteValues, bigEndian,
                              readError, timer, readLog, decodeLog, notified >>
      ]_vars

\* A cell of a loaded window holds an edit while a bundle is displayed.
C6_Witness ==
    /\ installed # 0
    /\ positionByteValues # Undefined
    /\ Len(hexData) = Len(WindowBytes(readLog[installed].pos))
    /\ \E c \in editedCells : c < Len(hexData) /\ hexData[c + 1] \in EditValues

C9_Shown ==
    IF \E i \in 1 .. Len(decodeLog) : decodeLog[i].st = "ok"
    THEN \E i \in 1 .. Len(decodeLog) :
             decodeLog[i].st = "ok" /\ positionByteValues = BundleAt(decodeLog[i].pos)
    ELSE positionByteValues = Undefined

\* C9: a decode that fails, or whose response cannot be reshaped, leaves
\* the displayed bundle, hexData and fromPosition as they are; the bundle
\* shown is never blanked and never partially overwritten.
C9_DecodeFailureKeepsBundle ==
    /\ []C9_Shown
    /\ [][ \A i \in 1 .. Len(decodeLog) :
             (decodeLog[i].st = "inflight" /\ decodeLog'[i].st \in {"fail", "thrown"}) =>
                 UNCHANGED << positionByteValues, hexData, fromPosition >>
         ]_vars

\* A decode has failed and another could not be reshaped, of which one
\* came after the decode whose bundle is still displayed.
C9_Witness ==
    /\ positionByteValues # Undefined
    /\ \E i, j \in 1 .. Len(decodeLog) :
           /\ i < j
           /\ decodeLog[i].st = "ok"
           /\ decodeLog[j].st \in {"fail", "thrown"}
           /\ positionByteValues = BundleAt(decodeLog[i].pos)

\* C11: the byte-order toggle is pure state: onSwitchChange stores the
\* value it is given in bigEndian, and a step that changes bigEndian sets no
\* timeout, issues no read and no decode, and leaves fromPosition, hexData,
\* the displayed bundle and readError as they are.
C11_ToggleIsPureState ==
    [][ /\ \A checked \in BOOLEAN : OnSwitchChange(checked) => bigEndian' = checked
        /\ bigEndian' # bigEndian =>
               UNCHANGED << fromPosition, hexData, positionByteValues, readError,
                            timer, readLog, decodeLog, notified >>
      ]_vars

\* The byte order was toggled over a loaded window and a displayed bundle,
\* with a read in flight.
C11_Witness ==
    /\ bigEndian
    /\ installed # 0
    /\ positionByteValues # Undefined
    /\ InFlight(readLog) # {}

\* C12: no automatic retry: a step in which a read fails sets no timeout and
\* issues no read; the timeout is set only by a change of fromPosition, which
\* always sets it, and a read is issued only by that timeout, once, at
\* fromPosition; a read that succeeds while readError is set still installs
\* its bytes and clears readError.
C12_NoAutomaticRetry ==
    [][ /\ \A i \in 1 .. Len(readLog) :
               (readLog[i].st = "inflight" /\ readLog'[i].st = "fail") =>
                   /\ timer' = timer
                   /\ Len(readLog') = Len(readLog)
        /\ (timer' # Idle /\ (timer = Idle \/ timer' < timer)) =>
               fromPosition' # fromPosition
        /\ fromPosition' # fromPosition => (timer' # Idle /\ ~TimerDue')
        /\ Len(readLog') # Len(readLog) =>
               /\ TimerDue
               /\ timer' = Idle
               /\ readLog' = Append(readLog, readFile(FileIndex, fromPosition))
        /\ \A i \in 1 .. Len(readLog) :
               (readError /\ readLog[i].st = "inflight" /\ readLog'[i].st = "ok") =>
                   /\ hexData' = WindowBytes(readLog[i].pos)
                   /\ readError' = FALSE
      ]_vars

\* A read failed, the offset was changed, and the read of the new offset
\* succeeded and is installed with readError cleared.
C12_Witness ==
    /\ ~readError
    /\ \E i, j \in 1 .. Len(readLog) :
           /\ i < j
           /\ readLog[i].st = "fail"
           /\ readLog[j].st = "ok"
           /\ readLog[j].pos # readLog[i].pos
           /\ installed = j
           /\ hexData = WindowBytes(fromPosition)

\* The read issued last for a settled offset is a read at that offset.
C13_LastReadAtOffset ==
    (timer = Idle /\ Len(readLog) > 0) => readLog[Len(readLog)].pos = fromPosition

\* C13: the coalesced read targets the final offset: once the timeout has
\* run, the read issued last is at fromPosition, never at an offset the
\* burst passed through; so once fromPosition is stable and every read has
\* succeeded, hexData holds the bytes at fromPosition.
C13_ReadTargetsFinalOffset ==
    /\ C13_LastReadAtOffset
    /\ (timer = Idle /\ InFlight(readLog) = {} /\ Failed(readLog) = {})
           => ShowsWindow(fromPosition)

\* The multi-byte character fields of a decode response.
CharFields ==
    {"char_le_utf8", "char_le_utf16", "char_le_utf32",
     "char_be_utf8", "char_be_utf16", "char_be_utf32"}

C15_InspectedOffset ==
    [][ decodeLog' # decodeLog =>
          /\ UNCHANGED << fromPosition, hexData, timer, readLog >>
          /\ Len(decodeLog') # Len(decodeLog) =>
                 \E i \in Cells :
                     decodeLog' = Append(decodeLog,
                                         getDataInPosition(FileIndex, fromPosition + i))
      ]_vars

\* With the window at an offset other than 0, a decode was issued for the
\* last cell of the grid and has resolved.
C15_Witness ==
    /\ fromPosition > 0
    /\ installed # 0
    /\ \E i \in 1 .. Len(decodeLog) :
           /\ decodeLog[i].pos = fromPosition + CellCount - 1
           /\ decodeLog[i].st # "inflight"

\* C16: short window: right after a read that returned L bytes, hexData has
\* length L, cell i < L of the grid is given byte i of the read, and every
\* cell i >= L is given no value (undefined, not 0), whatever the length of
\* the buffer before.
C16_ShortWindow ==
    (installed # 0 /\ editedCells = {}) =>
        LET L == Len(WindowBytes(readLog[installed].pos))
        IN  /\ Len(hexData) = L
            /\ \A i \in Cells :
                   IF i < L
                   THEN hexValue(i) = FileByte(readLog[installed].pos + i)
                   ELSE hexValue(i) = Hole /\ hexValue(i) # 0

\* A window shorter than the grid has replaced a window that filled it.
C16_Witness ==
    /\ installed # 0
    /\ editedCells = {}
    /\ Len(hexData) < CellCount
    /\ hexValue(CellCount - 1) = Hole
    /\ \E j \in 1 .. Len(readLog) :
           /\ j < installed
           /\ readLog[j].st = "ok"
           /\ Len(WindowBytes(readLog[j].pos)) = CellCount

\* C17: displayed bytes match displayed offsets: in a state with no timeout
\* pending and no read in flight, in which the last read succeeded, each
\* cell i that hexData holds and that was not edited since shows the file's
\* byte at fromPosition + i, the file position input i is given.
C17_BytesMatchOffsets ==
    ( /\ timer = Idle
      /\ InFlight(readLog) = {}
      /\ installed # 0
      /\ ~readError
      /\ readLog[Len(readLog)].st = "ok" ) =>
        \A i \in Cells :
            (i < Len(hexData) /\ i \notin editedCells) =>
                /\ fromPosition + i < FileSize
                /\ hexValue(i) = FileByte(fromPosition + i)

\* A read completes in this step, with the given outcome.
ReadCompletes(outcome) ==
    \E i \in 1 .. Len(readLog) : readLog[i].st = "inflight" /\ readLog'[i].st = outcome

\* C18: readError is the outcome of the read completed last: it is false at
\* mount, false after a step in which a read succeeds, true after a step in
\* which a read fails, and unchanged by every other step.
C18_ErrorFlagTracksLastRead ==
    /\ readError = FALSE
    /\ [][ /\ ReadCompletes("ok") => readError' = FALSE
           /\ ReadCompletes("fail") => readError' = TRUE
           /\ ~(ReadCompletes("ok") \/ ReadCompletes("fail")) => readError' = readError
       ]_vars

\* A read failed and a read succeeded after it, which cleared the flag; the
\* byte order was toggled and a decode issued meanwhile.
C18_Witness ==
    /\ ~readError
    /\ Failed(readLog) # {}
    /\ installed # 0
    /\ bigEndian
    /\ Len(decodeLog) > 0

\* C19: formatter fallback: with either case, the text for an absent value
\* is the text for 0 with that case, "00"; the text for a value is the one
\* of the upper-case formatter when hexUpperCase is true and of the
\* lower-case formatter otherwise: 0x0A in upper case is "0A".
C19_FormatterFallback ==
    tooltip # NoTooltip =>
        /\ tooltip.value = Hole =>
               /\ tooltip.text = (IF tooltip.upper THEN formatterUpper(0)
                                                   ELSE formatterLower(0))
               /\ tooltip.text = << "0", "0" >>
        /\ tooltip.value # Hole =>
               tooltip.text = (IF tooltip.upper THEN formatterUpper(tooltip.value)
                                                ELSE formatterLower(tooltip.value))
        /\ (tooltip.value = 10 /\ tooltip.upper) => tooltip.text = << "0", "A" >>
        /\ (tooltip.value = 10 /\ ~tooltip.upper) => tooltip.text = << "0", "a" >>

\* The formatter was given no value, in upper case.
C19_Witness ==
    /\ tooltip.value = Hole
    /\ tooltip.upper
    /\ tooltip.text = << "0", "0" >>

====
